---- MODULE Spec2Model ----
(***************************************************************************)
(* The three scripts of the King County house-price data-quality gate:     *)
(*   scripts/download_data.py            kaggle download, dvc add/status   *)
(*   scripts/create_expectation_suite.py registers the data source, defines *)
(*                                       the suite kc_house_raw, runs the  *)
(*                                       checkpoint                        *)
(*   src/data_loader.py                  load_data: CSV -> validate -> df  *)
(* A behaviour is a sequence of script runs over the files that outlive a  *)
(* run: the Great Expectations project (ctx) and the raw CSV.              *)
(***************************************************************************)
EXTENDS Integers, Sequences, FiniteSets, TLC

VARIABLES
    ctx,          \* the persisted Great Expectations file context
    csvExists,    \* data/raw/kc_house_data.csv is on disk
    dataset,      \* what that CSV holds once it is on disk
    config,       \* what yaml.safe_load returned in this run: <<>> or <<c>>
    args,         \* the arguments of this run's load_data call: <<>> or <<a>>
    script,       \* the script that is running or ran last
    pc,           \* its position
    df,           \* the dataframe pd.read_csv returned: <<>> or <<d>>
    result,       \* the validation result: <<>> or <<r>>
    ret,          \* the value load_data returned: <<>> or <<d>>
    exc,          \* the exception that ended the run or the call, "" if none
    exitCode,     \* the process exit code, -1 while running
    calls,        \* this run's calls to the outside world, with their outcomes
    out           \* this run's printed diagnostics

vars == <<ctx, csvExists, dataset, config, args, script, pc, df, result, ret,
          exc, exitCode, calls, out>>

\* ------------------------------------------------------------------ bounds

MaxRows == 2

\* --------------------------------------------------------------- dataframes

Range(s) == {s[i] : i \in DOMAIN s}

All(s) == \A i \in DOMAIN s : s[i]

RECURSIVE Count(_, _)
Count(s, x) ==
    IF s = <<>> THEN 0
    ELSE (IF Head(s) = x THEN 1 ELSE 0) + Count(Tail(s), x)

column_list ==
    << "id", "date", "price", "bedrooms", "bathrooms", "sqft_living",
       "sqft_lot", "floors", "waterfront", "view", "condition", "grade",
       "sqft_above", "sqft_basement", "yr_built", "yr_renovated",
       "zipcode", "lat", "long", "sqft_living15", "sqft_lot15" >>

\* A cell is <<>> (NaN) or <<v>>.
NaN == <<>>

Cell(v) == <<v>>

\* The columns some rule reads the values of; the other columns are opaque.
RuleColumns == {"price", "bedrooms", "bathrooms", "waterfront"}

RECURSIVE Without(_, _)
Without(s, x) ==
    IF s = <<>> THEN <<>>
    ELSE IF Head(s) = x THEN Without(Tail(s), x)
    ELSE <<Head(s)>> \o Without(Tail(s), x)

Swap(s, i, j) ==
    [k \in DOMAIN s |-> IF k = i THEN s[j] ELSE IF k = j THEN s[i] ELSE s[k]]

\* Headers a CSV may have: the expected one, one without price, one with
\* bedrooms and bathrooms exchanged.
Headers == {column_list, Without(column_list, "price"), Swap(column_list, 4, 5)}

CellValues(c) ==
    CASE c = "price"      -> {NaN, Cell(9999), Cell(10000), Cell(10000000), Cell(10000001)}
      [] c = "bedrooms"   -> {NaN, Cell(-1), Cell(0), Cell(33), Cell(34)}
      [] c = "bathrooms"  -> {NaN, Cell(-1), Cell(0), Cell(10), Cell(11)}
      [] c = "waterfront" -> {NaN, Cell(0), Cell(1), Cell(2)}

\* The row every sampled row is a variation of.
BaseRow ==
    [c \in RuleColumns |->
        CASE c = "price"      -> Cell(10000)
          [] c = "bedrooms"   -> Cell(33)
          [] c = "bathrooms"  -> Cell(10)
          [] c = "waterfront" -> Cell(1)]

\* Rows over all four rule columns: the base row, and every row that differs
\* from it in one column.
FullRows ==
    {r \in [RuleColumns -> UNION {CellValues(c) : c \in RuleColumns}] :
        /\ \A c \in RuleColumns : r[c] \in CellValues(c)
        /\ Cardinality({c \in RuleColumns : r[c] # BaseRow[c]}) <= 1}

Restrict(r, cols) == [c \in (DOMAIN r) \cap cols |-> r[c]]

RowsOf(header) == {Restrict(r, Range(header)) : r \in FullRows}

SeqsUpTo(S, n) == UNION {[1..k -> S] : k \in 0..n}

DataFrames ==
    UNION {{[columns |-> h, rows |-> rs] : rs \in SeqsUpTo(RowsOf(h), MaxRows)} :
           h \in Headers}

HasColumn(d, c) == c \in Range(d.columns)

\* ------------------------------------------------- expectations and suites

ExpectTableColumnsToMatchOrderedList(cols) ==
    [type |-> "expect_table_columns_to_match_ordered_list", column_list |-> cols]

ExpectColumnValuesToNotBeNull(c) ==
    [type |-> "expect_column_values_to_not_be_null", column |-> c]

ExpectColumnValuesToBeBetween(c, lo, hi) ==
    [type |-> "expect_column_values_to_be_between", column |-> c,
     min_value |-> lo, max_value |-> hi]

ExpectColumnValuesToBeInSet(c, S) ==
    [type |-> "expect_column_values_to_be_in_set", column |-> c, value_set |-> S]

suite_name == "kc_house_raw"

\* the bedrooms range one too wide
BedroomsRule_To34 == ExpectColumnValuesToBeBetween("bedrooms", 0, 34)

\* the bedrooms range one too narrow
BedroomsRule_To32 == ExpectColumnValuesToBeBetween("bedrooms", 0, 32)

\* "33 is present!": the widest bedrooms count of the sample is allowed.

BedroomsRule == ExpectColumnValuesToBeBetween("bedrooms", 0, 33)

\* The expectations of the suite kc_house_raw, in the order the script lists them.
expectations ==
    << ExpectTableColumnsToMatchOrderedList(column_list),
       ExpectColumnValuesToNotBeNull("price"),
       ExpectColumnValuesToNotBeNull("bedrooms"),
       ExpectColumnValuesToNotBeNull("bathrooms"),
       ExpectColumnValuesToBeBetween("price", 10000, 10000000),
       BedroomsRule,
       ExpectColumnValuesToBeBetween("bathrooms", 0, 10),
       ExpectColumnValuesToBeInSet("waterfront", {0, 1}) >>

ExpectationSuite(n, es) == [name |-> n, expectations |-> es]

\* One expectation on one dataframe, as the validation engine evaluates it: a
\* column rule fails on a missing column, and a range or set rule skips NaN.
ExpectationSuccess(e, d) ==
    CASE e.type = "expect_table_columns_to_match_ordered_list" ->
            d.columns = e.column_list
      [] e.type = "expect_column_values_to_not_be_null" ->
            /\ HasColumn(d, e.column)
            /\ \A i \in DOMAIN d.rows : d.rows[i][e.column] # NaN
      [] e.type = "expect_column_values_to_be_between" ->
            /\ HasColumn(d, e.column)
            /\ \A i \in DOMAIN d.rows :
                  LET x == d.rows[i][e.column] IN
                  x # NaN => (e.min_value <= x[1] /\ x[1] <= e.max_value)
      [] e.type = "expect_column_values_to_be_in_set" ->
            /\ HasColumn(d, e.column)
            /\ \A i \in DOMAIN d.rows :
                  LET x == d.rows[i][e.column] IN
                  x # NaN => x[1] \in e.value_set

\* The per-rule results of a suite on a dataframe, and the whole-suite flag.
Validate(suite, d) ==
    LET rs == [i \in DOMAIN suite.expectations |->
                  ExpectationSuccess(suite.expectations[i], d)]
    IN  [results |-> rs, success |-> All(rs)]

\* ------------------------------------------------ the persisted file context

EmptyContext ==
    [data_sources |-> <<>>, assets |-> <<>>, batch_definitions |-> <<>>,
     suites |-> <<>>, validation_definitions |-> <<>>, checkpoints |-> <<>>]

\* A project directory left by an earlier revision of the suite: the suite
\* kc_house_raw is stored, with a narrower bedrooms range and no waterfront rule.
StaleContext ==
    [EmptyContext EXCEPT !.suites =
        << ExpectationSuite(suite_name,
             << ExpectTableColumnsToMatchOrderedList(column_list),
                ExpectColumnValuesToBeBetween("bedrooms", 0, 10) >>) >>]

Names(store) == [i \in DOMAIN store |-> store[i].name]

\* "x in store": the lookup the script makes for the data source, and the
\* one each add of the engine makes before it stores a name.
Has(store, x) == x \in Range(store)

HasSuite(c, n) == n \in Range(Names(c.suites))

GetSuite(c, n) == c.suites[CHOOSE i \in DOMAIN c.suites : c.suites[i].name = n]

\* suites.add without the lookup
add_always(suites, s) == Append(suites, s)

\* context.suites.add_or_update(suite): replaces the stored suite of that name,
\* adds the suite when there is none.
add_or_update(suites, s) ==
    IF s.name \in Range(Names(suites))
    THEN [i \in DOMAIN suites |-> IF suites[i].name = s.name THEN s ELSE suites[i]]
    ELSE Append(suites, s)

\* ------------------------------------------------------------ run plumbing

Scripts == {"download_data", "create_expectation_suite", "data_loader"}

EntryPoint(s) ==
    CASE s = "download_data"            -> "download_kaggle_dataset"
      [] s = "create_expectation_suite" -> "get_context"
      [] s = "data_loader"              -> "config_file"

Call(op, res) == [op |-> op, res |-> res]

Ops(cs) == [i \in DOMAIN cs |-> cs[i].op]

Called(op) == op \in Range(Ops(calls))

\* sys.exit(code), or falling off the end of the script (code 0)
Exit(code) ==
    /\ pc' = "exited"
    /\ exitCode' = code

\* An exception nobody catches: the interpreter prints the traceback and
\* ends the process with code 1.
Uncaught(e, printed) ==
    /\ exc' = e
    /\ out' = printed \o <<"Traceback: " \o e>>
    /\ Exit(1)

Init ==
    /\ ctx \in {EmptyContext, StaleContext}
    /\ csvExists \in BOOLEAN
    /\ dataset \in DataFrames
    /\ config = <<>>
    /\ args = <<>>
    /\ script = "none"
    /\ pc = "idle"
    /\ df = <<>>
    /\ result = <<>>
    /\ ret = <<>>
    /\ exc = ""
    /\ exitCode = -1
    /\ calls = <<>>
    /\ out = <<>>

\* A script is started from the shell: a fresh process.
Start ==
    /\ pc \in {"idle", "exited"}
    /\ \E s \in Scripts :
         /\ script' = s
         /\ pc' = EntryPoint(s)
    /\ df' = <<>>
    /\ result' = <<>>
    /\ ret' = <<>>
    /\ exc' = ""
    /\ exitCode' = -1
    /\ calls' = <<>>
    /\ out' = <<>>
    /\ config' = <<>>
    /\ args' = <<>>
    /\ UNCHANGED <<ctx, csvExists, dataset>>

\* ------------------------------------------------ scripts/download_data.py

\* What subprocess.run(cmd, check=True) can do: return (exit code 0), raise
\* CalledProcessError (nonzero exit code), raise FileNotFoundError (no such
\* command).
RunOutcomes == {"0", "nonzero", "not found"}

\* the download handlers without their exit(1)
AfterDownloadError_NoExit ==
    /\ pc' = "initialize_dvc_for_data"
    /\ exitCode' = exitCode

AfterDownloadError == Exit(1)

download_kaggle_dataset ==
    /\ script = "download_data"
    /\ pc = "download_kaggle_dataset"
    /\ \E r \in RunOutcomes :
         /\ calls' = Append(calls, Call("kaggle datasets download", r))
         /\ CASE r = "0" ->
                   /\ csvExists' = TRUE
                   /\ out' = out
                   /\ pc' = "initialize_dvc_for_data"
                   /\ exitCode' = exitCode
              [] r = "nonzero" ->
                   /\ csvExists' = csvExists
                   /\ out' = Append(out, "Error downloading Kaggle dataset")
                   /\ AfterDownloadError
              [] r = "not found" ->
                   /\ csvExists' = csvExists
                   /\ out' = Append(out, "Kaggle command not found")
                   /\ AfterDownloadError
    /\ UNCHANGED <<ctx, dataset, config, args, script, df, result, ret, exc>>

\* the dvc add handler without its exit(1)
AfterDvcAddError_NoExit ==
    /\ pc' = "dvc_status"
    /\ exitCode' = exitCode

AfterDvcAddError == Exit(1)

initialize_dvc_for_data ==
    /\ script = "download_data"
    /\ pc = "initialize_dvc_for_data"
    /\ \E r \in RunOutcomes :
         /\ calls' = Append(calls, Call("dvc add", r))
         /\ CASE r = "0" ->
                   /\ out' = out
                   /\ exc' = exc
                   /\ pc' = "dvc_status"
                   /\ exitCode' = exitCode
              [] r = "nonzero" ->
                   /\ out' = Append(out, "Error adding data to DVC")
                   /\ exc' = exc
                   /\ AfterDvcAddError
              [] r = "not found" ->
                   Uncaught("FileNotFoundError", out)
    /\ UNCHANGED <<ctx, csvExists, dataset, config, args, script, df, result, ret>>

\* The handler of a failed dvc status prints and returns: the script ends.
AfterStatusError == Exit(0)

dvc_status ==
    /\ script = "download_data"
    /\ pc = "dvc_status"
    /\ \E r \in RunOutcomes :
         /\ calls' = Append(calls, Call("dvc status", r))
         /\ CASE r = "0" ->
                   /\ out' = out
                   /\ exc' = exc
                   /\ Exit(0)
              [] r = "nonzero" ->
                   /\ out' = Append(out, "Error checking DVC status")
                   /\ exc' = exc
                   /\ AfterStatusError
              [] r = "not found" ->
                   Uncaught("FileNotFoundError", out)
    /\ UNCHANGED <<ctx, csvExists, dataset, config, args, script, df, result, ret>>

\* ------------------------------------- scripts/create_expectation_suite.py

Step(next) ==
    /\ pc' = next
    /\ exitCode' = exitCode

get_context ==
    /\ script = "create_expectation_suite"
    /\ pc = "get_context"
    /\ calls' = Append(calls, Call("gx.get_context", "FileDataContext"))
    /\ Step("data_source")
    /\ UNCHANGED <<ctx, csvExists, dataset, config, args, script, df, result,
                   ret, exc, out>>

\* Section 2, first half: the data source is looked up before it is added.
data_source ==
    /\ script = "create_expectation_suite"
    /\ pc = "data_source"
    /\ IF Has(ctx.data_sources, "kc_house_datasource")
       THEN /\ calls' = Append(calls, Call("data_sources.get", "ok"))
            /\ ctx' = ctx
       ELSE /\ calls' = Append(calls, Call("data_sources.add_pandas", "ok"))
            /\ ctx' = [ctx EXCEPT !.data_sources = Append(@, "kc_house_datasource")]
    /\ Step("data_asset")
    /\ UNCHANGED <<csvExists, dataset, config, args, script, df, result, ret,
                   exc, out>>

\* Section 2, second half: the asset is added without a lookup, and the data
\* source refuses a second asset of the same name.
data_asset ==
    /\ script = "create_expectation_suite"
    /\ pc = "data_asset"
    /\ IF Has(ctx.assets, <<"kc_house_datasource", "kc_house_data">>)
       THEN /\ calls' = Append(calls, Call("add_dataframe_asset", "already exists"))
            /\ ctx' = ctx
            /\ Uncaught("ValueError", out)
       ELSE /\ calls' = Append(calls, Call("add_dataframe_asset", "ok"))
            /\ ctx' = [ctx EXCEPT !.assets =
                          Append(@, <<"kc_house_datasource", "kc_house_data">>)]
            /\ Step("batch_def")
            /\ UNCHANGED <<exc, out>>
    /\ UNCHANGED <<csvExists, dataset, config, args, script, df, result, ret>>

batch_def ==
    /\ script = "create_expectation_suite"
    /\ pc = "batch_def"
    /\ LET bd == <<"kc_house_datasource", "kc_house_data", "whole_file">> IN
       IF Has(ctx.batch_definitions, bd)
       THEN /\ calls' = Append(calls, Call("add_batch_definition_whole_dataframe",
                                           "already exists"))
            /\ ctx' = ctx
            /\ Uncaught("ValueError", out)
       ELSE /\ calls' = Append(calls, Call("add_batch_definition_whole_dataframe", "ok"))
            /\ ctx' = [ctx EXCEPT !.batch_definitions = Append(@, bd)]
            /\ Step("csv_path")
            /\ UNCHANGED <<exc, out>>
    /\ UNCHANGED <<csvExists, dataset, config, args, script, df, result, ret>>

csv_path_missing == ~csvExists

\* Section 3: the existence check, then pd.read_csv.
csv_path ==
    /\ script = "create_expectation_suite"
    /\ pc = "csv_path"
    /\ IF csv_path_missing
       THEN /\ calls' = Append(calls, Call("csv_path.exists", "False"))
            /\ df' = df
            /\ Uncaught("FileNotFoundError", out)
       ELSE /\ calls' = calls \o << Call("csv_path.exists", "True"),
                                    Call("pd.read_csv", "ok") >>
            /\ df' = <<dataset>>
            /\ Step("suite")
            /\ UNCHANGED <<exc, out>>
    /\ UNCHANGED <<ctx, csvExists, dataset, config, args, script, result, ret>>

\* Section 4: the suite is stored under its name.
suite ==
    /\ script = "create_expectation_suite"
    /\ pc = "suite"
    /\ calls' = Append(calls, Call("suites.add_or_update",
                                   IF HasSuite(ctx, suite_name) THEN "updated"
                                                                ELSE "added"))
    /\ ctx' = [ctx EXCEPT !.suites =
                  add_or_update(@, ExpectationSuite(suite_name, expectations))]
    /\ Step("validation_def")
    /\ UNCHANGED <<csvExists, dataset, config, args, script, df, result, ret,
                   exc, out>>

\* Section 5: validation_definitions.add refuses a name it already holds.
validation_def ==
    /\ script = "create_expectation_suite"
    /\ pc = "validation_def"
    /\ IF Has(ctx.validation_definitions, "kc_house_validation")
       THEN /\ calls' = Append(calls, Call("validation_definitions.add", "already exists"))
            /\ ctx' = ctx
            /\ Uncaught("DataContextError", out)
       ELSE /\ calls' = Append(calls, Call("validation_definitions.add", "ok"))
            /\ ctx' = [ctx EXCEPT !.validation_definitions =
                          Append(@, "kc_house_validation")]
            /\ Step("checkpoint")
            /\ UNCHANGED <<exc, out>>
    /\ UNCHANGED <<csvExists, dataset, config, args, script, df, result, ret>>

\* Section 6: checkpoints.add refuses a name it already holds.
checkpoint ==
    /\ script = "create_expectation_suite"
    /\ pc = "checkpoint"
    /\ IF Has(ctx.checkpoints, "kc_house_checkpoint")
       THEN /\ calls' = Append(calls, Call("checkpoints.add", "already exists"))
            /\ ctx' = ctx
            /\ Uncaught("DataContextError", out)
       ELSE /\ calls' = Append(calls, Call("checkpoints.add", "ok"))
            /\ ctx' = [ctx EXCEPT !.checkpoints = Append(@, "kc_house_checkpoint")]
            /\ Step("checkpoint_result")
            /\ UNCHANGED <<exc, out>>
    /\ UNCHANGED <<csvExists, dataset, config, args, script, df, result, ret>>

Outcome(r) == IF r.success THEN "success" ELSE "failure"

\* Section 7: the checkpoint validates the dataframe against the suite of its
\* validation definition, then its UpdateDataDocsAction builds the Data Docs.
checkpoint_result ==
    /\ script = "create_expectation_suite"
    /\ pc = "checkpoint_result"
    /\ LET r == Validate(GetSuite(ctx, suite_name), df[1]) IN
         /\ result' = <<r>>
         /\ calls' = calls \o << Call("checkpoint.run", Outcome(r)),
                                 Call("UpdateDataDocsAction", "ok") >>
    /\ Step("report")
    /\ UNCHANGED <<ctx, csvExists, dataset, config, args, script, df, ret, exc, out>>

\* Section 8, the report: the flag, one line per rule, then the Data Docs.
report ==
    /\ script = "create_expectation_suite"
    /\ pc = "report"
    /\ out' = Append(out, "Checkpoint passed: " \o
                          (IF result[1].success THEN "True" ELSE "False"))
    /\ calls' = Append(calls, Call("context.open_data_docs", "ok"))
    /\ Step("exit")
    /\ UNCHANGED <<ctx, csvExists, dataset, config, args, script, df, result,
                   ret, exc>>

\* exit code 0 whatever the checkpoint found
ExitOnResult_Always0(r) == Exit(0)

ExitOnResult(r) == IF ~r.success THEN Exit(1) ELSE Exit(0)

\* Section 8, the exit code.
exit ==
    /\ script = "create_expectation_suite"
    /\ pc = "exit"
    /\ ExitOnResult(result[1])
    /\ UNCHANGED <<ctx, csvExists, dataset, config, args, script, df, result,
                   ret, exc, calls, out>>

\* ---------------------------------------------------- src/data_loader.py

\* What configs/config.yaml may hold. A YAML mapping is a function on its keys.
EmptyDict == [k \in {} |-> <<>>]

Drop(d, k) == [x \in (DOMAIN d) \ {k} |-> d[x]]

FixedCsvPath == "data/raw/kc_house_data.csv"

DataPathsDicts ==
    {EmptyDict} \cup {[raw_data_path |-> p] : p \in {FixedCsvPath, "data/raw/other.csv"}}

\* The names the suite script registers.
RegisteredGxDict ==
    [suite_name |-> suite_name, datasource_name |-> "kc_house_datasource",
     data_asset_name |-> "kc_house_data"]

\* The registered names, one of them changed, or one key left out.
GxDicts ==
    {RegisteredGxDict,
     [RegisteredGxDict EXCEPT !.suite_name = "other_suite"],
     [RegisteredGxDict EXCEPT !.datasource_name = "other_datasource"]} \cup
    {Drop(RegisteredGxDict, k) : k \in DOMAIN RegisteredGxDict}

\* A mapping with the keys that are given (<<>>: the key is not there).
Dict(data_paths, great_expectations) ==
    [k \in (IF data_paths = <<>> THEN {} ELSE {"data_paths"}) \cup
           (IF great_expectations = <<>> THEN {} ELSE {"great_expectations"}) |->
        IF k = "data_paths" THEN data_paths[1] ELSE great_expectations[1]]

\* The file's text as yaml.safe_load sees it: not YAML, empty (None), or a
\* mapping: every data_paths without great_expectations, and every
\* great_expectations beside a data_paths that names a path.
ConfigFiles ==
    {[kind |-> "not yaml"], [kind |-> "None"]} \cup
    {[kind |-> "dict", doc |-> Dict(dp, <<>>)] :
        dp \in {<<>>} \cup {<<d>> : d \in DataPathsDicts}} \cup
    {[kind |-> "dict", doc |-> Dict(<<d>>, <<g>>)] :
        d \in DataPathsDicts \ {EmptyDict}, g \in GxDicts}

\* Whether there is a file at the path. The raw CSV is the only data file.
PathExists(path) == path = FixedCsvPath /\ csvExists

\* d[k1][k2] on what safe_load returned: TypeError on None, KeyError on a
\* missing key, else the value.
Lookup(c, k1, k2) ==
    IF c.kind = "None" THEN [err |-> "TypeError"]
    ELSE IF k1 \notin DOMAIN c.doc THEN [err |-> "KeyError"]
    ELSE IF k2 \notin DOMAIN c.doc[k1] THEN [err |-> "KeyError"]
    ELSE [err |-> "", value |-> c.doc[k1][k2]]

\* __main__: the configuration file must exist.
config_file ==
    /\ script = "data_loader"
    /\ pc = "config_file"
    /\ \E exists \in BOOLEAN :
         IF ~exists
         THEN /\ calls' = Append(calls, Call("config_file.exists", "False"))
              /\ out' = Append(out, "Error: config.yaml not found")
              /\ Exit(1)
         ELSE /\ calls' = Append(calls, Call("config_file.exists", "True"))
              /\ out' = out
              /\ Step("safe_load")
    /\ UNCHANGED <<ctx, csvExists, dataset, config, args, script, df, result,
                   ret, exc>>

\* __main__: yaml.safe_load, then raw_data_path, both outside the try.
safe_load ==
    /\ script = "data_loader"
    /\ pc = "safe_load"
    /\ \E c \in ConfigFiles :
         IF c.kind = "not yaml"
         THEN /\ calls' = Append(calls, Call("yaml.safe_load", "YAMLError"))
              /\ config' = config
              /\ Uncaught("YAMLError", out)
         ELSE LET p == Lookup(c, "data_paths", "raw_data_path") IN
              /\ config' = <<c>>
              /\ IF p.err # ""
                 THEN /\ calls' = calls \o << Call("yaml.safe_load", "ok"),
                                              Call("config['data_paths']", p.err) >>
                      /\ Uncaught(p.err, out)
                 ELSE /\ calls' = calls \o << Call("yaml.safe_load", "ok"),
                                              Call("config['data_paths']", "ok") >>
                      /\ Step("validated_df_call")
                      /\ UNCHANGED <<exc, out>>
    /\ UNCHANGED <<ctx, csvExists, dataset, args, script, df, result, ret>>

\* load_data raises: control passes to the except clause of __main__.
Raise(e) ==
    /\ exc' = e
    /\ Step("except")

\* __main__, inside the try: the arguments of load_data are evaluated in
\* order, then load_data is entered. A missing key raises KeyError.
validated_df_call ==
    /\ script = "data_loader"
    /\ pc = "validated_df_call"
    /\ LET c == config[1]
           p == Lookup(c, "data_paths", "raw_data_path")
           s == Lookup(c, "great_expectations", "suite_name")
           d == Lookup(c, "great_expectations", "datasource_name")
           a == Lookup(c, "great_expectations", "data_asset_name")
           err == IF s.err # "" THEN s.err ELSE IF d.err # "" THEN d.err ELSE a.err
       IN IF err # ""
          THEN /\ calls' = Append(calls, Call("config['great_expectations']", err))
               /\ args' = args
               /\ Raise(err)
          ELSE /\ calls' = Append(calls, Call("config['great_expectations']", "ok"))
               /\ args' = << [data_file_path |-> p.value,
                              gx_suite_name |-> s.value,
                              gx_datasource_name |-> d.value,
                              gx_data_asset_name |-> a.value] >>
               /\ exc' = exc
               /\ Step("load_data")
    /\ UNCHANGED <<ctx, csvExists, dataset, config, script, df, result, ret, out>>

\* load_data without its existence check
data_file_path_missing_Unchecked == FALSE

data_file_path_missing == ~PathExists(args[1].data_file_path)

\* load_data, the existence check.
load_data ==
    /\ script = "data_loader"
    /\ pc = "load_data"
    /\ IF data_file_path_missing
       THEN /\ calls' = Append(calls, Call("data_file_path.exists", "False"))
            /\ Raise("FileNotFoundError")
       ELSE /\ calls' = Append(calls, Call("data_file_path.exists", "True"))
            /\ exc' = exc
            /\ Step("read_csv")
    /\ UNCHANGED <<ctx, csvExists, dataset, config, args, script, df, result,
                   ret, out>>

read_csv ==
    /\ script = "data_loader"
    /\ pc = "read_csv"
    /\ calls' = Append(calls, Call("pd.read_csv", "ok"))
    /\ df' = <<dataset>>
    /\ Step("get_validator")
    /\ UNCHANGED <<ctx, csvExists, dataset, config, args, script, result, ret,
                   exc, out>>

\* The context and the validator. The engine raises when the data source or
\* the suite is not in the context, and it may reject the keyword arguments of
\* this call (batch_definition_name, batch_identifiers) altogether.
get_validator ==
    /\ script = "data_loader"
    /\ pc = "get_validator"
    /\ \E accepted \in BOOLEAN :
         IF /\ accepted
            /\ Has(ctx.data_sources, args[1].gx_datasource_name)
            /\ HasSuite(ctx, args[1].gx_suite_name)
         THEN /\ calls' = calls \o << Call("gx.get_context", "FileDataContext"),
                                      Call("context.get_validator", "ok") >>
              /\ exc' = exc
              /\ Step("validate")
         ELSE /\ calls' = calls \o << Call("gx.get_context", "FileDataContext"),
                                      Call("context.get_validator", "raised") >>
              /\ Raise("GreatExpectationsError")
    /\ UNCHANGED <<ctx, csvExists, dataset, config, args, script, df, result,
                   ret, out>>

validate ==
    /\ script = "data_loader"
    /\ pc = "validate"
    /\ LET r == Validate(GetSuite(ctx, args[1].gx_suite_name), df[1]) IN
         /\ result' = <<r>>
         /\ calls' = Append(calls, Call("validator.validate", Outcome(r)))
    /\ Step("validation_result")
    /\ UNCHANGED <<ctx, csvExists, dataset, config, args, script, df, ret, exc, out>>

\* the failure branch without its raise
AfterDataDocs_Return ==
    /\ ret' = df
    /\ exc' = exc
    /\ Step("validated_df")

\* The failure branch ends in raise ValueError.
AfterDataDocs ==
    /\ ret' = ret
    /\ Raise("ValueError")

\* load_data, after validate(): raise on failure, return df on success.
validation_result ==
    /\ script = "data_loader"
    /\ pc = "validation_result"
    /\ IF ~result[1].success
       THEN /\ out' = Append(out, "Data validation failed!")
            /\ calls' = Append(calls, Call("context.open_data_docs", "ok"))
            /\ AfterDataDocs
       ELSE /\ out' = Append(out, "Data validation successful!")
            /\ calls' = calls
            /\ ret' = df
            /\ exc' = exc
            /\ Step("validated_df")
    /\ UNCHANGED <<ctx, csvExists, dataset, config, args, script, df, result>>

\* __main__ after load_data returned: the head is printed, the script ends.
validated_df ==
    /\ script = "data_loader"
    /\ pc = "validated_df"
    /\ out' = Append(out, "Validated DataFrame head")
    /\ Exit(0)
    /\ UNCHANGED <<ctx, csvExists, dataset, config, args, script, df, result,
                   ret, exc, calls>>

\* __main__, except (FileNotFoundError, ValueError): any other exception is
\* not caught.
except ==
    /\ script = "data_loader"
    /\ pc = "except"
    /\ IF exc \in {"FileNotFoundError", "ValueError"}
       THEN /\ out' = Append(out, "An error occurred")
            /\ exc' = exc
            /\ Exit(1)
       ELSE Uncaught(exc, out)
    /\ UNCHANGED <<ctx, csvExists, dataset, config, args, script, df, result,
                   ret, calls>>

Next ==
    \/ Start
    \/ download_kaggle_dataset
    \/ initialize_dvc_for_data
    \/ dvc_status
    \/ get_context
    \/ data_source
    \/ data_asset
    \/ batch_def
    \/ csv_path
    \/ suite
    \/ validation_def
    \/ checkpoint
    \/ checkpoint_result
    \/ report
    \/ exit
    \/ config_file
    \/ safe_load
    \/ validated_df_call
    \/ load_data
    \/ read_csv
    \/ get_validator
    \/ validate
    \/ validation_result
    \/ validated_df
    \/ except

Spec == Init /\ [][Next]_vars

\* ------------------------------------------------------------------ claims

Exited == pc = "exited"

InLoader == script = "data_loader"

InCreate == script = "create_expectation_suite"

InDownload == script = "download_data"

Logged(op, res) == Call(op, res) \in Range(calls)

\* C1: load_data returns the dataframe only when the whole-suite result is
\* successful; when it is not, the call ends by raising ValueError and nothing
\* is returned.
C1_ReturnOnlyOnSuccess ==
    InLoader =>
        /\ ret # <<>> => (result # <<>> /\ result[1].success)
        /\ (result # <<>> /\ ~result[1].success /\ pc \in {"except", "exited"})
              => (exc = "ValueError" /\ ret = <<>>)

C1_Witness ==
    /\ InLoader
    /\ Exited
    /\ result # <<>>
    /\ ~result[1].success
    /\ exc = "ValueError"
    /\ ret = <<>>

ValidationOps ==
    {"pd.read_csv", "gx.get_context", "context.get_validator",
     "validator.validate", "suites.add_or_update", "validation_definitions.add",
     "checkpoints.add", "checkpoint.run"}

\* C2: with no CSV at the path, load_data raises FileNotFoundError without
\* reading the CSV, getting a context or validator, or validating; and
\* create_expectation_suite raises FileNotFoundError at its load step without
\* defining the suite, adding the validation definition or the checkpoint, or
\* running the checkpoint.
C2_MissingFileNoValidation ==
    /\ (InLoader /\ args # <<>> /\ ~PathExists(args[1].data_file_path)) =>
          /\ Range(Ops(calls)) \cap ValidationOps = {}
          /\ df = <<>> /\ result = <<>> /\ ret = <<>>
          /\ pc \notin {"read_csv", "get_validator", "validate",
                        "validation_result", "validated_df"}
          /\ Logged("data_file_path.exists", "False") => exc = "FileNotFoundError"
    /\ (InCreate /\ ~csvExists) =>
          /\ Range(Ops(calls)) \cap (ValidationOps \ {"gx.get_context"}) = {}
          /\ df = <<>> /\ result = <<>>
          /\ Logged("csv_path.exists", "False") =>
                (exc = "FileNotFoundError" /\ Exited /\ exitCode = 1)

C2_Witness ==
    /\ InLoader
    /\ args # <<>>
    /\ ~PathExists(args[1].data_file_path)
    /\ Exited
    /\ Logged("data_file_path.exists", "False")
    /\ exc = "FileNotFoundError"

Tools == {"kaggle datasets download", "dvc add", "dvc status"}

\* C7 as claimed: a nonzero exit code of any of the three tools prints a
\* diagnostic and ends the process at once with a nonzero status, and no tool
\* is run twice.
C7_AnyNonzeroIsFatal ==
    InDownload =>
        /\ \A i \in DOMAIN calls :
              calls[i].res = "nonzero" =>
                 (i = Len(calls) /\ Exited /\ exitCode # 0 /\ out # <<>>)
        /\ \A t \in Tools : Count(Ops(calls), t) <= 1

\* C7 as the code has it: a nonzero exit code of the kaggle download or of
\* dvc add prints a diagnostic and ends the process at once with status 1; a
\* nonzero exit code of dvc status prints a diagnostic and the script ends
\* with status 0; no tool is run twice.
C7_NonzeroFatalButStatus ==
    InDownload =>
        /\ \A i \in DOMAIN calls :
              calls[i].res = "nonzero" =>
                 /\ i = Len(calls)
                 /\ Exited
                 /\ Len(out) = 1
                 /\ exitCode = (IF calls[i].op = "dvc status" THEN 0 ELSE 1)
        /\ \A t \in Tools : Count(Ops(calls), t) <= 1

C7_Witness ==
    /\ InDownload
    /\ Exited
    /\ Logged("dvc add", "nonzero")
    /\ exitCode = 1
    /\ out = <<"Error adding data to DVC">>

\* C8: dvc add and dvc status are invoked only after the kaggle download
\* returned exit code 0; a failed download, or a missing kaggle command,
\* ends the run with no dvc call.
C8_DvcOnlyAfterDownload ==
    InDownload =>
        /\ \A i \in DOMAIN calls :
              calls[i].op \in {"dvc add", "dvc status"} =>
                 \E j \in 1..(i - 1) : calls[j] = Call("kaggle datasets download", "0")
        /\ (\E r \in {"nonzero", "not found"} : Logged("kaggle datasets download", r))
              => (Exited /\ Len(calls) = 1)

C8_Witness ==
    /\ InDownload
    /\ Exited
    /\ calls = <<Call("kaggle datasets download", "nonzero")>>

\* What a run met, read off its calls.
ToolFailure ==
    \E i \in DOMAIN calls :
        calls[i].op \in Tools /\ calls[i].res \in {"nonzero", "not found"}

MissingFile ==
    \/ Logged("config_file.exists", "False")
    \/ Logged("data_file_path.exists", "False")
    \/ Logged("csv_path.exists", "False")

ValidationFailure ==
    \/ Logged("validator.validate", "failure")
    \/ Logged("checkpoint.run", "failure")

\* configs/config.yaml is there but is not YAML, is empty or lacks a key.
ConfigFailure ==
    \E i \in DOMAIN calls : calls[i].res \in {"YAMLError", "TypeError", "KeyError"}

\* The validation engine itself refused a call.
EngineError ==
    \E i \in DOMAIN calls : calls[i].res \in {"already exists", "raised"}

Failure == ValidationFailure \/ MissingFile \/ ConfigFailure \/ ToolFailure

\* C3 as claimed: a run ends with exit code 1 when it met a validation
\* failure, a missing file, an unusable configuration or a missing or failing
\* tool, and with exit code 0 when everything succeeded.
C3_ExitCodes ==
    Exited =>
        /\ Failure => exitCode = 1
        /\ ~(Failure \/ EngineError) => exitCode = 0

StatusNonzero == Logged("dvc status", "nonzero")

\* C3 as the code has it: the same, except that a nonzero exit code of
\* dvc status is only reported and that run ends with exit code 0.
C3_ExitCodesButStatus ==
    Exited =>
        /\ (Failure /\ ~StatusNonzero) => exitCode = 1
        /\ StatusNonzero => exitCode = 0
        /\ ~(Failure \/ EngineError) => exitCode = 0

C3_Witness ==
    /\ InCreate
    /\ Exited
    /\ ValidationFailure
    /\ exitCode = 1

InRange(x, lo, hi) == x # NaN /\ lo <= x[1] /\ x[1] <= hi

\* The dataframes C4 is about, in the claim's own terms.
Conforming(d) ==
    /\ d.columns = column_list
    /\ \A i \in DOMAIN d.rows :
          /\ InRange(d.rows[i]["price"], 10000, 10000000)
          /\ InRange(d.rows[i]["bedrooms"], 0, 33)
          /\ InRange(d.rows[i]["bathrooms"], 0, 10)
          /\ d.rows[i]["waterfront"] \in {Cell(0), Cell(1)}

SuiteInUse == GetSuite(ctx, suite_name).expectations

\* C4: a conforming dataframe passes the kc_house_raw suite, and load_data
\* returns it as pd.read_csv gave it.
C4_ConformingPassesUnchanged ==
    (result # <<>> /\ Conforming(dataset) /\ SuiteInUse = expectations) =>
        /\ df = <<dataset>>
        /\ result[1].success
        /\ (InLoader /\ pc \in {"validated_df", "exited"}) =>
              (ret = <<dataset>> /\ exc = "")
        /\ (InLoader /\ Exited) => exitCode = 0

C4_Witness ==
    /\ InLoader
    /\ Exited
    /\ Conforming(dataset)
    /\ Len(dataset.rows) >= 1
    /\ dataset.rows[1]["bedrooms"] = Cell(33)
    /\ ret = <<dataset>>

\* Whether the data violates the i-th rule of the suite, in the claim's terms.
Violates(i, d) ==
    LET bad(c, ok(_)) ==
            \/ ~HasColumn(d, c)
            \/ \E k \in DOMAIN d.rows : ~ok(d.rows[k][c])
    IN  CASE i = 1 -> d.columns # column_list
          [] i = 2 -> bad("price", LAMBDA x : x # NaN)
          [] i = 3 -> bad("bedrooms", LAMBDA x : x # NaN)
          [] i = 4 -> bad("bathrooms", LAMBDA x : x # NaN)
          [] i = 5 -> bad("price", LAMBDA x : x = NaN \/ InRange(x, 10000, 10000000))
          [] i = 6 -> bad("bedrooms", LAMBDA x : x = NaN \/ InRange(x, 0, 33))
          [] i = 7 -> bad("bathrooms", LAMBDA x : x = NaN \/ InRange(x, 0, 10))
          [] i = 8 -> bad("waterfront", LAMBDA x : x \in {NaN, Cell(0), Cell(1)})

Bedrooms34 ==
    [columns |-> column_list,
     rows |-> <<[BaseRow EXCEPT !["bedrooms"] = Cell(34)]>>]

\* C5: the suite has eight rules; each per-rule result is a failure exactly
\* when the data violates that rule; the whole-suite flag is the conjunction
\* of the per-rule results; one row with bedrooms = 34 fails the bedrooms
\* range rule alone, a CSV without the price column fails the column-list
\* rule, and both fail overall.
C5_PerRuleResults ==
    (result # <<>> /\ SuiteInUse = expectations) =>
        LET r == result[1] IN
        /\ DOMAIN r.results = 1..8
        /\ \A i \in 1..8 : r.results[i] = ~Violates(i, dataset)
        /\ r.success = (\A i \in 1..8 : r.results[i])
        /\ dataset = Bedrooms34 =>
              ({i \in 1..8 : ~r.results[i]} = {6} /\ ~r.success)
        /\ ~HasColumn(dataset, "price") => (~r.results[1] /\ ~r.success)

C5_Witness ==
    /\ InCreate
    /\ result # <<>>
    /\ dataset = Bedrooms34
    /\ result[1].results = <<TRUE, TRUE, TRUE, TRUE, TRUE, FALSE, TRUE, TRUE>>

\* C6: however often the definition step runs, the context holds one suite
\* named kc_house_raw, with the rules of the latest run, and the step raises
\* nothing.
C6_OneSuitePerName ==
    /\ Count(Names(ctx.suites), suite_name) <= 1
    /\ (InCreate /\ Called("suites.add_or_update")) =>
          /\ Count(Names(ctx.suites), suite_name) = 1
          /\ SuiteInUse = expectations
    /\ (InCreate /\ pc = "validation_def") => exc = ""

C6_Witness ==
    /\ InCreate
    /\ Logged("suites.add_or_update", "updated")
    /\ Len(ctx.suites) = 1
    /\ SuiteInUse = expectations

\* The Data Docs were built in this run, and opened after that.
DocsBuiltThenOpened ==
    \E i, j \in DOMAIN calls :
        /\ i < j
        /\ calls[i].op = "UpdateDataDocsAction"
        /\ calls[j].op = "context.open_data_docs"

\* C9: when a rule fails the run is marked unsuccessful, the Data Docs are
\* built and opened, and only then load_data raises ValueError, or
\* create_expectation_suite exits with code 1.
C9_ReportThenSignal ==
    (result # <<>> /\ ~All(result[1].results)) =>
        /\ ~result[1].success
        /\ (InLoader /\ pc \in {"except", "exited"}) =>
              (DocsBuiltThenOpened /\ exc = "ValueError" /\ ret = <<>>)
        /\ (InCreate /\ Exited) => (DocsBuiltThenOpened /\ exitCode = 1)

\* C10: the registration of data source, asset and batch definition never
\* fails on a context that already holds them, and leaves one of each.
C10_RegistrationIdempotent ==
    InCreate =>
        /\ ~Logged("add_dataframe_asset", "already exists")
        /\ ~Logged("add_batch_definition_whole_dataframe", "already exists")
        /\ Count(ctx.data_sources, "kc_house_datasource") <= 1
        /\ Count(ctx.assets, <<"kc_house_datasource", "kc_house_data">>) <= 1
        /\ (Has(ctx.assets, <<"kc_house_datasource", "kc_house_data">>)
            /\ pc \notin {"get_context", "data_source", "data_asset"})
              => exc # "ValueError"

====
